---- MODULE Spec2Model ----
(***************************************************************************)
(* Model of the sales-insights repository: SalesAnalyzer                   *)
(* (src/sales_analysis.py) and the Streamlit dashboard                     *)
(* (src/sales_dashboard.py).                                               *)
(*                                                                         *)
(* A DataFrame is a sequence of rows (records).  float64 values are exact  *)
(* rationals plus the IEEE specials inf, -inf and nan (type Float below);  *)
(* int64 sums are integers.  Text is TLA+ strings; the order pandas uses   *)
(* on text (code-point order) is the order of StrOrder.  Rows of the input *)
(* table carry a value in every column (spec section 3 and 6).             *)
(***************************************************************************)
EXTENDS Integers, Sequences, FiniteSets, TLC

VARIABLES fs, program, file_path, df, clean_df, data_path, cache, out

vars == <<fs, program, file_path, df, clean_df, data_path, cache, out>>

(***************************************************************************)
(* Bounds of the model.                                                    *)
(***************************************************************************)
\* Largest number of rows of a source table the model enumerates.
MaxRows == 3
\* top_n ranges over -MaxTopN .. MaxTopN.
MaxTopN == 2

(***************************************************************************)
(* Python values.                                                          *)
(***************************************************************************)
\* An attribute that is None, or holds the frame v.
None == [some |-> FALSE, v |-> <<>>]
Some(frame) == [some |-> TRUE, v |-> frame]

\* A path with no file, or the file with these lines.
NoFile == [exists |-> FALSE, lines |-> <<>>]
File(lines) == [exists |-> TRUE, lines |-> lines]

\* The operation returned normally.
NoExc == "no exception"

Abs(x) == IF x < 0 THEN -x ELSE x

Sgn(x) == IF x > 0 THEN 1 ELSE IF x < 0 THEN -1 ELSE 0

(***************************************************************************)
(* Natural numbers of any size, for the 53-bit significands of float64:    *)
(* the digits in base Limb, lowest first, the highest not 0; <<>> is 0.    *)
(***************************************************************************)
Limb == 4096
LimbBits == 12

RECURSIVE BigOfNat(_)
BigOfNat(n) == IF n = 0 THEN <<>> ELSE <<n % Limb>> \o BigOfNat(n \div Limb)

RECURSIVE BigTrim(_)
BigTrim(a) ==
    IF a = <<>> THEN <<>>
    ELSE IF a[Len(a)] = 0 THEN BigTrim(SubSeq(a, 1, Len(a) - 1))
    ELSE a

\* a + b + c
RECURSIVE BigAdd(_, _, _)
BigAdd(a, b, c) ==
    IF a = <<>> /\ b = <<>> THEN BigOfNat(c)
    ELSE LET x == IF a = <<>> THEN 0 ELSE a[1]
             y == IF b = <<>> THEN 0 ELSE b[1]
             t == x + y + c
         IN <<t % Limb>> \o BigAdd(IF a = <<>> THEN <<>> ELSE Tail(a),
                                   IF b = <<>> THEN <<>> ELSE Tail(b), t \div Limb)

\* The digits of a - b - c, for a >= b + c.
RECURSIVE BigSubDigits(_, _, _)
BigSubDigits(a, b, c) ==
    IF a = <<>> THEN <<>>
    ELSE LET y == IF b = <<>> THEN 0 ELSE b[1]
             t == a[1] - y - c
         IN <<IF t < 0 THEN t + Limb ELSE t>>
               \o BigSubDigits(Tail(a), IF b = <<>> THEN <<>> ELSE Tail(b),
                               IF t < 0 THEN 1 ELSE 0)

BigSub(a, b) == BigTrim(BigSubDigits(a, b, 0))

\* -1, 0 or 1 as a < b, a = b or a > b.
BigCmp(a, b) ==
    IF Len(a) # Len(b) THEN (IF Len(a) < Len(b) THEN -1 ELSE 1)
    ELSE LET d == {i \in 1..Len(a) : a[i] # b[i]}
         IN IF d = {} THEN 0
            ELSE LET i == CHOOSE x \in d : \A y \in d : y <= x
                 IN IF a[i] < b[i] THEN -1 ELSE 1

\* a * k + c, for 0 < k < 2^18.
RECURSIVE BigMulSmall(_, _, _)
BigMulSmall(a, k, c) ==
    IF a = <<>> THEN BigOfNat(c)
    ELSE LET t == a[1] * k + c
         IN <<t % Limb>> \o BigMulSmall(Tail(a), k, t \div Limb)

\* a * 2^n
BigShl(a, n) ==
    IF a = <<>> THEN <<>>
    ELSE [i \in 1..(n \div LimbBits) |-> 0] \o BigMulSmall(a, 2 ^ (n % LimbBits), 0)

\* Quotient digits and remainder of a by k, for 0 < k < 2^19.
RECURSIVE BigDivSmall(_, _)
BigDivSmall(a, k) ==
    IF a = <<>> THEN [q |-> <<>>, r |-> 0]
    ELSE LET hi == BigDivSmall(Tail(a), k)
             t == hi.r * Limb + a[1]
         IN [q |-> <<t \div k>> \o hi.q, r |-> t % k]

\* a \div 2^n, and whether a bit was shifted out.
BigShr(a, n) ==
    LET w == IF n \div LimbBits < Len(a) THEN n \div LimbBits ELSE Len(a)
        d == BigDivSmall(SubSeq(a, w + 1, Len(a)), 2 ^ (n % LimbBits))
    IN [q |-> BigTrim(d.q), sticky |-> d.r # 0 \/ \E i \in 1..w : a[i] # 0]

\* Number of bits of a.
BitLen(a) ==
    IF a = <<>> THEN 0
    ELSE LimbBits * (Len(a) - 1)
           + (CHOOSE n \in 1..LimbBits : 2 ^ (n - 1) <= a[Len(a)] /\ a[Len(a)] < 2 ^ n)

BigOdd(a) == a # <<>> /\ a[1] % 2 = 1

(***************************************************************************)
(* float64 (IEEE 754 binary64).  k is "fin", "inf", "-inf" or "nan"; a     *)
(* finite value is s * m * 2^e with sign s and, unless it is zero, a       *)
(* significand m of exactly 53 bits.  The values of the program are far    *)
(* from the exponent range, and -0.0 equals 0.0.                           *)
(***************************************************************************)
Mantissa == 53

FZero == [k |-> "fin", s |-> 0, m |-> <<>>, e |-> 0]
FInf == [k |-> "inf", s |-> 0, m |-> <<>>, e |-> 0]
FNegInf == [k |-> "-inf", s |-> 0, m |-> <<>>, e |-> 0]
FNaN == [k |-> "nan", s |-> 0, m |-> <<>>, e |-> 0]

\* The float nearest to s * (n + f) * 2^e, ties to even, where 0 < f < 1 if
\* sticky and f = 0 if not (sticky only with more than Mantissa + 1 bits of n).
Round(s, n, sticky, e) ==
    IF n = <<>> THEN FZero
    ELSE LET len == BitLen(n)
         IN IF len <= Mantissa
            THEN [k |-> "fin", s |-> s, m |-> BigShl(n, Mantissa - len),
                  e |-> e - (Mantissa - len)]
            ELSE LET sh == len - Mantissa
                     t == BigShr(n, sh - 1)
                     guard == BigOdd(t.q)
                     q == BigShr(t.q, 1).q
                     up == guard /\ (t.sticky \/ sticky \/ BigOdd(q))
                     q1 == IF up THEN BigAdd(q, <<>>, 1) ELSE q
                 IN IF BitLen(q1) > Mantissa
                    THEN [k |-> "fin", s |-> s, m |-> BigShr(q1, 1).q, e |-> e + sh + 1]
                    ELSE [k |-> "fin", s |-> s, m |-> q1, e |-> e + sh]

\* float(i)
FInt(i) == Round(Sgn(i), BigOfNat(Abs(i)), FALSE, 0)

\* Bits of the quotient computed below the binary point by FDiv.
DivBits == 76

\* numpy true division of two integers (|b| < 2^19): the correctly rounded
\* quotient; x/0 is inf, -inf or nan, never an error.
FDiv(a, b) ==
    IF b = 0 THEN (IF a > 0 THEN FInf ELSE IF a < 0 THEN FNegInf ELSE FNaN)
    ELSE LET d == BigDivSmall(BigShl(BigOfNat(Abs(a)), DivBits), Abs(b))
         IN Round(Sgn(a) * Sgn(b), BigTrim(d.q), d.r # 0, -DivBits)

\* x * 100
FMul100(x) ==
    IF x.k = "fin" THEN Round(x.s, BigMulSmall(x.m, 100, 0), FALSE, x.e) ELSE x

\* x + y
FAdd(x, y) ==
    IF x.k = "nan" \/ y.k = "nan" THEN FNaN
    ELSE IF x.k = "fin" /\ y.k = "fin" THEN
        IF x.s = 0 THEN y
        ELSE IF y.s = 0 THEN x
        ELSE LET e == IF x.e < y.e THEN x.e ELSE y.e
                 nx == BigShl(x.m, x.e - e)
                 ny == BigShl(y.m, y.e - e)
                 c == BigCmp(nx, ny)
             IN IF x.s = y.s THEN Round(x.s, BigAdd(nx, ny, 0), FALSE, e)
                ELSE IF c = 0 THEN FZero
                ELSE IF c > 0 THEN Round(x.s, BigSub(nx, ny), FALSE, e)
                ELSE Round(y.s, BigSub(ny, nx), FALSE, e)
    ELSE IF x.k = "fin" THEN y
    ELSE IF y.k = "fin" THEN x
    ELSE IF x.k = y.k THEN x
    ELSE FNaN

\* -1, 0 or 1 as x < y, x = y or x > y, for finite x and y.
FCmp(x, y) ==
    IF x.s # y.s THEN (IF x.s < y.s THEN -1 ELSE 1)
    ELSE IF x.s = 0 THEN 0
    ELSE x.s * (IF x.e # y.e THEN (IF x.e < y.e THEN -1 ELSE 1) ELSE BigCmp(x.m, y.m))

\* x <= y on two floats; every comparison with nan is False.
FLeq(x, y) ==
    CASE x.k = "nan" \/ y.k = "nan" -> FALSE
      [] x.k = "-inf" \/ y.k = "inf" -> TRUE
      [] x.k = "inf" \/ y.k = "-inf" -> FALSE
      [] OTHER -> FCmp(x, y) <= 0

\* x <= c and x > c for an integer c.
FLe(x, c) == FLeq(x, FInt(c))

FGt(x, c) == x.k # "nan" /\ ~FLeq(x, FInt(c))

(***************************************************************************)
(* Text order (Python compares str by code point).                         *)
(***************************************************************************)
StrOrder ==
    << "Alice", "April", "August", "Blender", "Bob", "Chair", "Charlie",
       "Coffee Table", "December", "Desk", "Diana", "East", "Edward",
       "Electronics", "February", "Frank", "Furniture", "Grace", "Headphones",
       "Helen", "Home & Garden", "January", "July", "June", "Laptop", "March",
       "May", "North", "November", "October", "September", "Smartphone",
       "South", "TV", "West" >>

StrRank(s) == CHOOSE i \in 1..Len(StrOrder) : StrOrder[i] = s

StrLess(a, b) == StrRank(a) < StrRank(b)

(***************************************************************************)
(* Sequence helpers.                                                       *)
(***************************************************************************)
Range(s) == {s[i] : i \in 1..Len(s)}

\* sum of column c of frame s (Series.sum(); 0 for no rows).
RECURSIVE ColSum(_, _)
ColSum(s, c) == IF s = <<>> THEN 0 ELSE s[1][c] + ColSum(Tail(s), c)

(***************************************************************************)
(* Dates.  A CSV date is the text YYYY-MM-DD (a sequence of characters);   *)
(* pd.to_datetime turns it into a Timestamp, modelled by its calendar      *)
(* fields.                                                                 *)
(***************************************************************************)
DigitVal(c) ==
    CASE c = "0" -> 0 [] c = "1" -> 1 [] c = "2" -> 2 [] c = "3" -> 3
      [] c = "4" -> 4 [] c = "5" -> 5 [] c = "6" -> 6 [] c = "7" -> 7
      [] c = "8" -> 8 [] c = "9" -> 9

to_datetime(t) ==
    [ year  |-> 1000 * DigitVal(t[1]) + 100 * DigitVal(t[2])
                  + 10 * DigitVal(t[3]) + DigitVal(t[4]),
      month |-> 10 * DigitVal(t[6]) + DigitVal(t[7]),
      day   |-> 10 * DigitVal(t[9]) + DigitVal(t[10]) ]

\* Timestamp comparison.
TsLeq(a, b) ==
    \/ a.year < b.year
    \/ a.year = b.year /\ a.month < b.month
    \/ a.year = b.year /\ a.month = b.month /\ a.day <= b.day

\* strftime('%B')
MonthNames ==
    << "January", "February", "March", "April", "May", "June", "July",
       "August", "September", "October", "November", "December" >>

DateText(y1, y2, y3, y4, m1, m2, d1, d2) ==
    <<y1, y2, y3, y4, "-", m1, m2, "-", d1, d2>>

(***************************************************************************)
(* Source tables.                                                          *)
(***************************************************************************)
Row(id, cust, prod, cat, reg, date, sales, profit, qty) ==
    [ OrderID |-> id, CustomerName |-> cust, ProductName |-> prod,
      Category |-> cat, Region |-> reg, OrderDate |-> date,
      Sales |-> sales, Profit |-> profit, Quantity |-> qty ]

\* The sample dataset load_data creates when the file is missing.
sample_data ==
    << Row(1, "Alice", "Smartphone", "Electronics", "North",
           DateText("2","0","2","3","0","1","0","5"), 20000, 3000, 1),
       Row(2, "Bob", "Laptop", "Electronics", "South",
           DateText("2","0","2","3","0","1","1","2"), 55000, 8000, 1),
       Row(3, "Charlie", "Desk", "Furniture", "East",
           DateText("2","0","2","3","0","1","2","0"), 15000, 2500, 1),
       Row(4, "Diana", "Chair", "Furniture", "West",
           DateText("2","0","2","3","0","2","0","2"), 7000, 1200, 2),
       Row(5, "Edward", "Blender", "Home & Garden", "North",
           DateText("2","0","2","3","0","2","1","0"), 4000, 600, 1),
       Row(6, "Frank", "Headphones", "Electronics", "South",
           DateText("2","0","2","3","0","2","1","8"), 3000, 500, 1),
       Row(7, "Grace", "TV", "Electronics", "East",
           DateText("2","0","2","3","0","3","0","1"), 45000, 6000, 1),
       Row(8, "Helen", "Coffee Table", "Furniture", "West",
           DateText("2","0","2","3","0","3","0","9"), 9000, 1500, 1) >>

\* Rows the enumerated source tables are made of, in file order.  Rows 3 and
\* 4 are the same order recorded twice.
Pool ==
    << Row(1, "Alice", "Laptop", "Electronics", "North",
           DateText("2","0","2","3","0","1","0","5"), 80, 10, 1),
       Row(2, "Bob", "Desk", "Furniture", "South",
           DateText("2","0","2","3","0","2","1","0"), 20, -10, 2),
       Row(3, "Alice", "Chair", "Furniture", "East",
           DateText("2","0","2","4","0","1","2","0"), 20, 5, 1),
       Row(3, "Alice", "Chair", "Furniture", "East",
           DateText("2","0","2","4","0","1","2","0"), 20, 5, 1),
       Row(5, "Bob", "Laptop", "Electronics", "South",
           DateText("2","0","2","3","0","1","2","5"), 0, 0, 1),
       Row(6, "Charlie", "Desk", "Furniture", "West",
           DateText("2","0","2","4","0","2","0","1"), 100, -5, 3) >>

\* The rows of Pool at the positions I, in file order.
RECURSIVE PoolRows(_, _)
PoolRows(I, i) ==
    IF i > Len(Pool) THEN <<>>
    ELSE (IF i \in I THEN <<Pool[i]>> ELSE <<>>) \o PoolRows(I, i + 1)

\* The source tables of the model: up to MaxRows rows of Pool.
Tables ==
    {PoolRows(I, 1) : I \in {J \in SUBSET (1..Len(Pool)) : Cardinality(J) <= MaxRows}}

DefaultPath == "data/sales_data.csv"
Paths == {DefaultPath, "other.csv"}

(***************************************************************************)
(* CSV text.  to_csv writes every integer as its decimal text and leaves   *)
(* text as it is; read_csv parses the integer columns back.                *)
(***************************************************************************)
DigitChar(v) ==
    CASE v = 0 -> "0" [] v = 1 -> "1" [] v = 2 -> "2" [] v = 3 -> "3"
      [] v = 4 -> "4" [] v = 5 -> "5" [] v = 6 -> "6" [] v = 7 -> "7"
      [] v = 8 -> "8" [] v = 9 -> "9"

RECURSIVE NatText(_)
NatText(n) ==
    IF n < 10 THEN <<DigitChar(n)>> ELSE NatText(n \div 10) \o <<DigitChar(n % 10)>>

IntText(i) == IF i < 0 THEN <<"-">> \o NatText(-i) ELSE NatText(i)

RECURSIVE ParseNat(_, _)
ParseNat(t, acc) ==
    IF t = <<>> THEN acc ELSE ParseNat(Tail(t), 10 * acc + DigitVal(Head(t)))

ParseInt(t) == IF Head(t) = "-" THEN -ParseNat(Tail(t), 0) ELSE ParseNat(t, 0)

IntColumns == {"OrderID", "Sales", "Profit", "Quantity"}
RawColumns == IntColumns \cup {"CustomerName", "ProductName", "Category", "Region", "OrderDate"}

\* DataFrame.to_csv(path, index=False): the file's lines.
to_csv(frame) ==
    [i \in 1..Len(frame) |->
        [c \in RawColumns |-> IF c \in IntColumns THEN IntText(frame[i][c]) ELSE frame[i][c]]]

\* pd.read_csv(path)
read_csv(file) ==
    [i \in 1..Len(file) |->
        [c \in RawColumns |-> IF c \in IntColumns THEN ParseInt(file[i][c]) ELSE file[i][c]]]

(***************************************************************************)
(* SalesAnalyzer.load_data and clean_data.                                 *)
(***************************************************************************)
\* load_data on the file system fsys: the frame read, and the file system
\* afterwards (the sample dataset is written to 'data/sales_data.csv').
load_data(fsys, path) ==
    IF fsys[path].exists
    THEN [df |-> read_csv(fsys[path].lines), fs |-> fsys]
    ELSE [df |-> sample_data,
          fs |-> [fsys EXCEPT ![DefaultPath] = File(to_csv(sample_data))]]

\* The derived columns of one row.
Normalize(r) ==
    LET ts == to_datetime(r.OrderDate)
    IN [ OrderID |-> r.OrderID, CustomerName |-> r.CustomerName,
         ProductName |-> r.ProductName, Category |-> r.Category,
         Region |-> r.Region, OrderDate |-> ts,
         Sales |-> r.Sales, Profit |-> r.Profit, Quantity |-> r.Quantity,
         Month |-> ts.month, MonthName |-> MonthNames[ts.month], Year |-> ts.year,
         Profit_Margin |-> FMul100(FDiv(r.Profit, r.Sales)) ]

\* DataFrame.drop_duplicates(): the first of equal rows is kept.
RECURSIVE drop_duplicates(_)
drop_duplicates(s) ==
    IF s = <<>> THEN <<>>
    ELSE LET init == drop_duplicates(SubSeq(s, 1, Len(s) - 1))
             last == s[Len(s)]
         IN IF last \in Range(init) THEN init ELSE Append(init, last)

clean_data(frame) == drop_duplicates([i \in 1..Len(frame) |-> Normalize(frame[i])])

(***************************************************************************)
(* groupby(...).agg(...)                                                   *)
(***************************************************************************)
\* The group key of row r under groupby(by), by a list of columns: the
\* tuple of the row's values in them.
KeyOf(r, by) == [i \in 1..Len(by) |-> r[by[i]]]

\* Order of two values of column col: numbers for Year and Month, text
\* otherwise.
ValLess(x, y, col) == IF col \in {"Year", "Month"} THEN x < y ELSE StrLess(x, y)

\* KeyLess with the first column compared last: (Year, Month, MonthName)
\* keys in the order of (Month, MonthName, Year).
KeyLessFirstLast(a, b, by) ==
    LET n == Len(by)
        p == [i \in 1..n |-> IF i < n THEN i + 1 ELSE 1]
    IN \E i \in 1..n :
          /\ \A j \in 1..(i - 1) : a[p[j]] = b[p[j]]
          /\ ValLess(a[p[i]], b[p[i]], by[p[i]])

\* Group keys compare as tuples.
KeyLess(a, b, by) ==
    \E i \in 1..Len(by) : (\A j \in 1..(i - 1) : a[j] = b[j]) /\ ValLess(a[i], b[i], by[i])

\* The keys S in ascending order (groupby sorts the group keys).
SortKeys(S, by) ==
    LET f[T \in SUBSET S] ==
            IF T = {} THEN <<>>
            ELSE LET m == CHOOSE x \in T : \A y \in T \ {x} : KeyLess(x, y, by)
                 IN <<m>> \o f[T \ {m}]
    IN f[S]

\* The rows of frame whose key is k.
GroupRows(frame, by, k) == SelectSeq(frame, LAMBDA r : KeyOf(r, by) = k)

\* AggRow with 'first' in place of 'sum' for Sales.
AggRowFirstSales(k, g) ==
    [ key |-> k,
      Sales |-> g[1].Sales,
      Profit |-> ColSum(g, "Profit"),
      Quantity |-> ColSum(g, "Quantity"),
      Order_Count |-> Len(g) ]

\* .agg({'Sales': 'sum', 'Profit': 'sum', 'Quantity': 'sum', 'OrderID': 'count'})
\* on the rows g of one group, OrderID renamed to Order_Count.
AggRow(k, g) ==
    [ key |-> k,
      Sales |-> ColSum(g, "Sales"),
      Profit |-> ColSum(g, "Profit"),
      Quantity |-> ColSum(g, "Quantity"),
      Order_Count |-> Len(g) ]

\* groupby(by).agg(...): one aggregate row per distinct key, in ascending
\* key order (sort=True); the key of a single column is its value.
GroupAgg(frame, by) ==
    LET keys == SortKeys({KeyOf(frame[i], by) : i \in 1..Len(frame)}, by)
    IN [j \in 1..Len(keys) |->
           AggRow(IF Len(by) = 1 THEN keys[j][1] ELSE keys[j], GroupRows(frame, by, keys[j]))]

\* frame['Profit_Margin'] = (frame['Profit'] / frame['Sales']) * 100
WithProfitMargin(agg) ==
    [j \in 1..Len(agg) |->
        [ key |-> agg[j].key, Sales |-> agg[j].Sales, Profit |-> agg[j].Profit,
          Quantity |-> agg[j].Quantity, Order_Count |-> agg[j].Order_Count,
          Profit_Margin |-> FMul100(FDiv(agg[j].Profit, agg[j].Sales)) ]]

\* frame['Sales_Percentage'] = (frame['Sales'] / frame['Sales'].sum()) * 100
WithSalesPercentage(agg) ==
    LET total == ColSum(agg, "Sales")
    IN [j \in 1..Len(agg) |->
        [ key |-> agg[j].key, Sales |-> agg[j].Sales, Profit |-> agg[j].Profit,
          Quantity |-> agg[j].Quantity, Order_Count |-> agg[j].Order_Count,
          Profit_Margin |-> agg[j].Profit_Margin,
          Sales_Percentage |-> FMul100(FDiv(agg[j].Sales, total)) ]]

\* sort_values(col, ascending=False) with the default kind='quicksort', which
\* is not a stable sort: the rows come out descending by col, rows with equal
\* col in an order the build decides.  The set of the orders it can produce.
sort_values_desc(frame, col) ==
    LET f[T \in SUBSET (1..Len(frame))] ==
            IF T = {} THEN {<<>>}
            ELSE UNION { {<<frame[m]>> \o t : t \in f[T \ {m}]} :
                         m \in {x \in T : \A y \in T : frame[y][col] <= frame[x][col]} }
    IN f[1..Len(frame)]

\* head that stops one row early.
head_one_short(frame, n) ==
    IF n >= 1 THEN SubSeq(frame, 1, IF n - 1 < Len(frame) THEN n - 1 ELSE Len(frame))
    ELSE <<>>

\* DataFrame.head(n): the first n rows; for n < 0 all rows but the last -n.
head(frame, n) ==
    IF n >= 0 THEN SubSeq(frame, 1, IF n < Len(frame) THEN n ELSE Len(frame))
    ELSE SubSeq(frame, 1, Len(frame) + n)

\* The columns of the monthly grouping.
MonthColumns == <<"Year", "Month", "MonthName">>

(***************************************************************************)
(* Outcomes of an operation: what it returned (or rendered), or the        *)
(* exception it raised.                                                    *)
(***************************************************************************)
Raised(op, exc) == [op |-> op, raised |-> exc]

(***************************************************************************)
(* SalesAnalyzer: the analyses.  Each is given the frame self.clean_df.    *)
(***************************************************************************)
\* calculate_kpis: the kpis dict.  With no rows Total_Sales / Total_Orders
\* divides by zero.
calculate_kpis(frame) ==
    LET total_sales == ColSum(frame, "Sales")
        total_profit == ColSum(frame, "Profit")
    IN IF Len(frame) = 0 THEN Raised("calculate_kpis", "ZeroDivisionError")
       ELSE [ op |-> "calculate_kpis", raised |-> NoExc,
              Total_Sales |-> total_sales,
              Total_Profit |-> total_profit,
              Total_Orders |-> Len(frame),
              Total_Quantity |-> ColSum(frame, "Quantity"),
              Average_Order_Value |-> FDiv(total_sales, Len(frame)),
              Overall_Profit_Margin |-> FMul100(FDiv(total_profit, total_sales)) ]

\* groupby(column).agg(...) with Profit_Margin, before the sort: lines
\* 139-146, 160-167, 181-188 and 201-208.
ColumnAgg(frame, column) ==
    WithProfitMargin(GroupAgg(frame, <<column>>))

\* top_products_analysis(top_n) / top_customers_analysis(top_n): the frames
\* they can return.
top_products_analysis(frame, top_n) ==
    {head(sorted, top_n) : sorted \in sort_values_desc(ColumnAgg(frame, "ProductName"), "Sales")}

top_customers_analysis(frame, top_n) ==
    {head(sorted, top_n) : sorted \in sort_values_desc(ColumnAgg(frame, "CustomerName"), "Sales")}

\* regional_analysis() / category_analysis()
regional_analysis(frame) ==
    sort_values_desc(WithSalesPercentage(ColumnAgg(frame, "Region")), "Sales")

category_analysis(frame) ==
    sort_values_desc(WithSalesPercentage(ColumnAgg(frame, "Category")), "Sales")

\* monthly_trend_analysis(): grouped by (Year, Month, MonthName), in key
\* order; reset_index() turns the key into the columns Year, Month, MonthName.
monthly_trend_analysis(frame) ==
    LET agg == WithProfitMargin(GroupAgg(frame, MonthColumns))
    IN [j \in 1..Len(agg) |->
        [ Year |-> agg[j].key[1], Month |-> agg[j].key[2], MonthName |-> agg[j].key[3],
          Sales |-> agg[j].Sales, Profit |-> agg[j].Profit,
          Order_Count |-> agg[j].Order_Count, Quantity |-> agg[j].Quantity,
          Profit_Margin |-> agg[j].Profit_Margin ]]

\* cumsum that does not accumulate.
cumsum_no_acc(s, acc) == s

\* Series.cumsum() (skipna=True): a nan entry stays nan and is left out of
\* the running sum.
RECURSIVE cumsum(_, _)
cumsum(s, acc) ==
    IF s = <<>> THEN <<>>
    ELSE IF s[1].k = "nan" THEN <<FNaN>> \o cumsum(Tail(s), acc)
    ELSE <<FAdd(acc, s[1])>> \o cumsum(Tail(s), FAdd(acc, s[1]))

\* groupby(column)[metric].sum(): one [key, value] per group, in key order.
GroupSum(frame, column, metric) ==
    LET agg == GroupAgg(frame, <<column>>)
    IN [j \in 1..Len(agg) |-> [key |-> agg[j].key, value |-> agg[j][metric]]]

\* The rest of pareto_analysis, given the sorted series pareto_data.
ParetoOf(pareto_data) ==
    LET total == ColSum(pareto_data, "value")
        pareto_data_pct ==
            [j \in 1..Len(pareto_data) |-> FMul100(FDiv(pareto_data[j].value, total))]
        cumulative_pct == cumsum(pareto_data_pct, FInt(0))
        idx == [j \in 1..Len(pareto_data) |-> j]
        threshold_80 == SelectSeq(idx, LAMBDA j : FLe(cumulative_pct[j], 80))
        threshold_20 == SelectSeq(idx, LAMBDA j : FGt(cumulative_pct[j], 80))
    IN \* len(threshold_80)/len(pareto_data) in the report divides by zero
       \* when there is no group.
       IF Len(pareto_data) = 0 THEN Raised("pareto_analysis", "ZeroDivisionError")
       ELSE [ op |-> "pareto_analysis", raised |-> NoExc,
              pareto_data |-> pareto_data,
              pareto_data_pct |-> pareto_data_pct,
              cumulative_pct |-> cumulative_pct,
              threshold_80 |-> [i \in 1..Len(threshold_80) |-> pareto_data[threshold_80[i]].key],
              threshold_20 |-> [i \in 1..Len(threshold_20) |-> pareto_data[threshold_20[i]].key] ]

\* pareto_analysis(column, metric): the outcomes it can have.
pareto_analysis(frame, column, metric) ==
    {ParetoOf(sorted) : sorted \in sort_values_desc(GroupSum(frame, column, metric), "value")}

(***************************************************************************)
(* The dashboard (src/sales_dashboard.py).                                 *)
(***************************************************************************)
\* load_and_prepare_data(csv_path) without the cache: a fresh SalesAnalyzer
\* loads and cleans; the frame returned and the file system afterwards.
load_and_prepare_data(fsys, csv_path) ==
    LET loaded == load_data(fsys, csv_path)
    IN [df |-> clean_data(loaded.df), fs |-> loaded.fs]

\* apply_filters with the end of the date range excluded.
apply_filters_end_excluded(frame, start_date, end_date, regions, categories) ==
    LET in_range == SelectSeq(frame,
            LAMBDA r : TsLeq(start_date, r.OrderDate) /\ ~TsLeq(end_date, r.OrderDate))
        by_region == IF regions # {}
                     THEN SelectSeq(in_range, LAMBDA r : r.Region \in regions)
                     ELSE in_range
    IN IF categories # {}
       THEN SelectSeq(by_region, LAMBDA r : r.Category \in categories)
       ELSE by_region

\* apply_filters(df, (start_date, end_date), regions, categories); regions
\* and categories are the selected values, empty for no selection.
apply_filters(frame, start_date, end_date, regions, categories) ==
    LET in_range == SelectSeq(frame,
            LAMBDA r : TsLeq(start_date, r.OrderDate) /\ TsLeq(r.OrderDate, end_date))
        by_region == IF regions # {}
                     THEN SelectSeq(in_range, LAMBDA r : r.Region \in regions)
                     ELSE in_range
    IN IF categories # {}
       THEN SelectSeq(by_region, LAMBDA r : r.Category \in categories)
       ELSE by_region

\* render_kpis(df): the six metrics it shows.
render_kpis(frame) ==
    LET empty == Len(frame) = 0
        total_sales == IF ~empty THEN ColSum(frame, "Sales") ELSE 0
        total_profit == IF ~empty THEN ColSum(frame, "Profit") ELSE 0
        total_orders == Len(frame)
    IN [ op |-> "render_kpis", raised |-> NoExc, df |-> frame,
         total_sales |-> FInt(total_sales),
         total_profit |-> FInt(total_profit),
         total_orders |-> total_orders,
         total_quantity |-> IF ~empty THEN ColSum(frame, "Quantity") ELSE 0,
         aov |-> IF total_orders > 0 THEN FDiv(total_sales, total_orders) ELSE FInt(0),
         margin |-> IF total_sales > 0 THEN FMul100(FDiv(total_profit, total_sales))
                    ELSE FInt(0) ]

\* st.info("No data for selected filters."), the early return of the charts.
NoData == "No data for selected filters."

\* render_top_products(df, top_n): the frames it can chart.
render_top_products(frame, top_n) ==
    LET agg == GroupAgg(frame, <<"ProductName">>)
        grouped == [j \in 1..Len(agg) |->
            [ ProductName |-> agg[j].key, Sales |-> agg[j].Sales,
              Profit |-> agg[j].Profit, Quantity |-> agg[j].Quantity ]]
    IN {head(sorted, top_n) : sorted \in sort_values_desc(grouped, "Sales")}

\* render_top_customers(df, top_n)
render_top_customers(frame, top_n) ==
    LET agg == GroupAgg(frame, <<"CustomerName">>)
        grouped == [j \in 1..Len(agg) |->
            [ CustomerName |-> agg[j].key, Sales |-> agg[j].Sales,
              Profit |-> agg[j].Profit, Orders |-> agg[j].Order_Count ]]
    IN {head(sorted, top_n) : sorted \in sort_values_desc(grouped, "Sales")}

\* render_region_category(df): by_region and by_cat.
SalesBy(frame, column) ==
    LET agg == GroupAgg(frame, <<column>>)
    IN sort_values_desc([j \in 1..Len(agg) |-> [key |-> agg[j].key, Sales |-> agg[j].Sales]],
                        "Sales")

\* sort_values(["Year", "Month"]): ascending and stable.
RECURSIVE sort_values_year_month(_)
sort_values_year_month(frame) ==
    IF frame = <<>> THEN <<>>
    ELSE LET init == sort_values_year_month(SubSeq(frame, 1, Len(frame) - 1))
             last == frame[Len(frame)]
             before(r) == r.Year < last.Year \/ (r.Year = last.Year /\ r.Month <= last.Month)
             n == Cardinality({i \in 1..Len(init) : before(init[i])})
         IN SubSeq(init, 1, n) \o <<last>> \o SubSeq(init, n + 1, Len(init))

\* render_monthly_trend(df): the frame trend.
render_monthly_trend(frame) ==
    LET agg == GroupAgg(frame, MonthColumns)
        grouped == [j \in 1..Len(agg) |->
            [ Year |-> agg[j].key[1], Month |-> agg[j].key[2], MonthName |-> agg[j].key[3],
              Sales |-> agg[j].Sales, Profit |-> agg[j].Profit ]]
        trend == sort_values_year_month(grouped)
    IN [j \in 1..Len(trend) |->
        [ Year |-> trend[j].Year, Month |-> trend[j].Month, MonthName |-> trend[j].MonthName,
          Sales |-> trend[j].Sales, Profit |-> trend[j].Profit,
          MonthLabel |-> trend[j].MonthName \o " " \o ToString(trend[j].Year) ]]

\* The charts of one run of main(): lines 217-225, each chart function
\* given filtered_df and top_n=10.  The frames they can chart.
Charts(filtered_df, top_n) ==
    IF Len(filtered_df) = 0
    THEN {[info |-> NoData]}
    ELSE { [ info |-> "", top_products |-> tp, top_customers |-> tc,
             by_region |-> br, by_cat |-> bc,
             trend |-> render_monthly_trend(filtered_df) ] :
           tp \in render_top_products(filtered_df, top_n),
           tc \in render_top_customers(filtered_df, top_n),
           br \in SalesBy(filtered_df, "Region"),
           bc \in SalesBy(filtered_df, "Category") }

(***************************************************************************)
(* Inputs of the operations.                                               *)
(***************************************************************************)
\* top_n=10, the default of the analyses and the value main() passes.
DefaultTopN == 10

TopNs == ((-MaxTopN)..MaxTopN) \cup {DefaultTopN}

ParetoColumns == {"ProductName", "CustomerName", "Region", "Category"}
Metrics == {"Sales", "Profit", "Quantity"}

\* df["OrderDate"].min() and .max() of a frame with rows.
min_date(frame) ==
    LET d == {frame[i].OrderDate : i \in 1..Len(frame)}
    IN CHOOSE x \in d : \A y \in d : TsLeq(x, y)

max_date(frame) ==
    LET d == {frame[i].OrderDate : i \in 1..Len(frame)}
    IN CHOOSE x \in d : \A y \in d : TsLeq(y, x)

\* sorted(df[column].dropna().unique().tolist()), as the set of options.
Options(frame, column) == {frame[i][column] : i \in 1..Len(frame)}

\* The dates a user sets in the date input: the order dates of the first
\* MaxRows rows and the two ends of the data.
DatePicks(frame) ==
    {frame[i].OrderDate : i \in 1..(IF Len(frame) < MaxRows THEN Len(frame) ELSE MaxRows)}
        \cup {min_date(frame), max_date(frame)}

\* The selections a user makes in a multiselect: all options (the default),
\* none, or a single one.
Selections(options) == {options, {}} \cup {{o} : o \in options}

\* The filter settings enumerated for a frame with rows.
FilterArgs(frame) ==
    {a \in [ start : DatePicks(frame), end : DatePicks(frame),
             regions : Selections(Options(frame, "Region")),
             categories : Selections(Options(frame, "Category")) ] :
        TsLeq(a.start, a.end)}

Filtered(frame, a) == apply_filters(frame, a.start, a.end, a.regions, a.categories)

\* The frames handed to the dashboard's functions: the filtered views of
\* the frame load_and_prepare_data returned.
Views ==
    IF ~cache[data_path].some THEN {}
    ELSE IF Len(cache[data_path].v) = 0 THEN {cache[data_path].v}
    ELSE {Filtered(cache[data_path].v, a) : a \in FilterArgs(cache[data_path].v)}

(***************************************************************************)
(* The state.  fs is the file system, which outlives a process.  program   *)
(* is the script that runs: sales_analysis.py with its SalesAnalyzer       *)
(* (file_path, df, clean_df), or sales_dashboard.py with the path of the   *)
(* sidebar's text input (data_path, read by every run of main()) and the   *)
(* st.cache_data cache of load_and_prepare_data, one entry per path for    *)
(* the life of the process.  out is the outcome of the operation that has  *)
(* just run, Idle when none has.                                           *)
(***************************************************************************)
Script == "sales_analysis.py"
Dashboard == "sales_dashboard.py"

Idle == [op |-> "", raised |-> NoExc]

\* A fresh process: SalesAnalyzer('data/sales_data.csv') with df and
\* clean_df None; the text input at its default and an empty cache.
Started(prog) ==
    /\ program' = prog
    /\ file_path' = DefaultPath
    /\ df' = None
    /\ clean_df' = None
    /\ data_path' = DefaultPath
    /\ cache' = [p \in Paths |-> None]
    /\ out' = Idle

Init ==
    /\ \E f \in {NoFile} \cup {File(to_csv(t)) : t \in Tables} :
          fs = [p \in Paths |-> IF p = DefaultPath THEN f ELSE NoFile]
    /\ program \in {Script, Dashboard}
    /\ file_path = DefaultPath
    /\ df = None
    /\ clean_df = None
    /\ data_path = DefaultPath
    /\ cache = [p \in Paths |-> None]
    /\ out = Idle

\* The process ends and one of the two programs is started; files stay.
Run ==
    /\ out = Idle
    /\ \E prog \in {Script, Dashboard} : Started(prog)
    /\ UNCHANGED fs

\* The operation has returned; its result is dropped.
Return ==
    /\ out # Idle
    /\ out' = Idle
    /\ UNCHANGED <<fs, program, file_path, df, clean_df, data_path, cache>>

\* analyzer.load_data()
LoadData ==
    /\ program = Script /\ out = Idle
    /\ LET loaded == load_data(fs, file_path)
       IN /\ df' = Some(loaded.df)
          /\ fs' = loaded.fs
          /\ out' = [op |-> "load_data", raised |-> NoExc, ret |-> loaded.df]
    /\ UNCHANGED <<program, file_path, clean_df, data_path, cache>>

\* analyzer.clean_data(); self.df.copy() fails on None.
CleanData ==
    /\ program = Script /\ out = Idle
    /\ IF df.some
       THEN /\ clean_df' = Some(clean_data(df.v))
            /\ out' = [op |-> "clean_data", raised |-> NoExc, ret |-> clean_data(df.v)]
       ELSE /\ clean_df' = clean_df
            /\ out' = Raised("clean_data", "AttributeError")
    /\ UNCHANGED <<fs, program, file_path, df, data_path, cache>>

\* An analysis reads self.clean_df and changes nothing; on None it raises.
Analysis(outcome) ==
    /\ out' = outcome
    /\ UNCHANGED <<fs, program, file_path, df, clean_df, data_path, cache>>

CalculateKpis ==
    /\ program = Script /\ out = Idle
    /\ IF clean_df.some THEN Analysis(calculate_kpis(clean_df.v))
       ELSE Analysis(Raised("calculate_kpis", "TypeError"))

TopProductsAnalysis ==
    /\ program = Script /\ out = Idle
    /\ \E top_n \in TopNs :
           IF clean_df.some
           THEN \E rows \in top_products_analysis(clean_df.v, top_n) :
                   Analysis([op |-> "top_products_analysis", raised |-> NoExc,
                             top_n |-> top_n, rows |-> rows])
           ELSE Analysis(Raised("top_products_analysis", "AttributeError"))

TopCustomersAnalysis ==
    /\ program = Script /\ out = Idle
    /\ \E top_n \in TopNs :
           IF clean_df.some
           THEN \E rows \in top_customers_analysis(clean_df.v, top_n) :
                   Analysis([op |-> "top_customers_analysis", raised |-> NoExc,
                             top_n |-> top_n, rows |-> rows])
           ELSE Analysis(Raised("top_customers_analysis", "AttributeError"))

RegionalAnalysis ==
    /\ program = Script /\ out = Idle
    /\ IF clean_df.some
       THEN \E rows \in regional_analysis(clean_df.v) :
               Analysis([op |-> "regional_analysis", raised |-> NoExc, rows |-> rows])
       ELSE Analysis(Raised("regional_analysis", "AttributeError"))

CategoryAnalysis ==
    /\ program = Script /\ out = Idle
    /\ IF clean_df.some
       THEN \E rows \in category_analysis(clean_df.v) :
               Analysis([op |-> "category_analysis", raised |-> NoExc, rows |-> rows])
       ELSE Analysis(Raised("category_analysis", "AttributeError"))

MonthlyTrendAnalysis ==
    /\ program = Script /\ out = Idle
    /\ IF clean_df.some
       THEN Analysis([op |-> "monthly_trend_analysis", raised |-> NoExc,
                      rows |-> monthly_trend_analysis(clean_df.v)])
       ELSE Analysis(Raised("monthly_trend_analysis", "AttributeError"))

ParetoAnalysis ==
    /\ program = Script /\ out = Idle
    /\ \E column \in ParetoColumns, metric \in Metrics :
           IF clean_df.some
           THEN \E res \in pareto_analysis(clean_df.v, column, metric) :
                   Analysis([c \in DOMAIN res \cup {"column", "metric"} |->
                               CASE c = "column" -> column
                                 [] c = "metric" -> metric
                                 [] OTHER -> res[c]])
           ELSE Analysis(Raised("pareto_analysis", "AttributeError"))

(***************************************************************************)
(* The dashboard's operations.                                             *)
(***************************************************************************)
\* Call with apply_filters narrowing the cached frame itself instead of
\* returning a filtered copy.
CallFiltersInPlace(outcome) ==
    /\ out' = outcome
    /\ cache' = IF "ret" \in DOMAIN outcome
                THEN [cache EXCEPT ![data_path] = Some(outcome.ret)]
                ELSE cache
    /\ UNCHANGED <<fs, program, file_path, df, clean_df, data_path>>

\* A call of one of the dashboard's functions: it changes no state.
Call(outcome) ==
    /\ out' = outcome
    /\ UNCHANGED <<fs, program, file_path, df, clean_df, data_path, cache>>

\* apply_filters(df, date_range, regions, categories) on the frame
\* load_and_prepare_data returned.
ApplyFilters ==
    /\ program = Dashboard /\ out = Idle
    /\ cache[data_path].some
    /\ Len(cache[data_path].v) > 0
    /\ \E a \in FilterArgs(cache[data_path].v) :
          Call([op |-> "apply_filters", raised |-> NoExc, df |-> cache[data_path].v,
                args |-> a, ret |-> Filtered(cache[data_path].v, a)])

RenderKpis ==
    /\ program = Dashboard /\ out = Idle
    /\ \E view \in Views : Call(render_kpis(view))

RenderTopProducts ==
    /\ program = Dashboard /\ out = Idle
    /\ \E view \in Views, top_n \in TopNs :
        IF Len(view) = 0
        THEN Call([op |-> "render_top_products", raised |-> NoExc, df |-> view,
                   top_n |-> top_n, info |-> NoData])
        ELSE \E grouped \in render_top_products(view, top_n) :
                Call([op |-> "render_top_products", raised |-> NoExc, df |-> view,
                      top_n |-> top_n, info |-> "", rows |-> grouped])

RenderTopCustomers ==
    /\ program = Dashboard /\ out = Idle
    /\ \E view \in Views, top_n \in TopNs :
        IF Len(view) = 0
        THEN Call([op |-> "render_top_customers", raised |-> NoExc, df |-> view,
                   top_n |-> top_n, info |-> NoData])
        ELSE \E grouped \in render_top_customers(view, top_n) :
                Call([op |-> "render_top_customers", raised |-> NoExc, df |-> view,
                      top_n |-> top_n, info |-> "", rows |-> grouped])

RenderRegionCategory ==
    /\ program = Dashboard /\ out = Idle
    /\ \E view \in Views :
        IF Len(view) = 0
        THEN Call([op |-> "render_region_category", raised |-> NoExc, df |-> view,
                   info |-> NoData])
        ELSE \E by_region \in SalesBy(view, "Region"), by_cat \in SalesBy(view, "Category") :
                Call([op |-> "render_region_category", raised |-> NoExc, df |-> view,
                      info |-> "", by_region |-> by_region, by_cat |-> by_cat])

RenderMonthlyTrend ==
    /\ program = Dashboard /\ out = Idle
    /\ \E view \in Views :
        IF Len(view) = 0
        THEN Call([op |-> "render_monthly_trend", raised |-> NoExc, df |-> view,
                   info |-> NoData])
        ELSE Call([op |-> "render_monthly_trend", raised |-> NoExc, df |-> view,
                   info |-> "", rows |-> render_monthly_trend(view)])

\* One run of main() (Streamlit reruns it on every interaction).  The path
\* is read from the text input on every run.
\* load_and_prepare_data is cached by path (st.cache_data); on a miss it
\* loads, cleans and stores.  With no rows min_date is NaT and
\* min_date.date() raises.  The date input gives a (start, end) pair, or a
\* single date (a.start) while the range is being set, and then the range
\* is (min_date, max_date).
Main ==
    /\ program = Dashboard /\ out = Idle
    /\ \E csv_path \in Paths :
       \E prepared \in {IF cache[csv_path].some
                        THEN [df |-> cache[csv_path].v, fs |-> fs]
                        ELSE load_and_prepare_data(fs, csv_path)} :
          /\ data_path' = csv_path
          /\ fs' = prepared.fs
          /\ cache' = [cache EXCEPT ![csv_path] = Some(prepared.df)]
          /\ IF Len(prepared.df) = 0
             THEN out' = Raised("main", "ValueError")
             ELSE \E a \in FilterArgs(prepared.df) :
                  \E pair \in (IF a.start = a.end THEN BOOLEAN ELSE {TRUE}) :
                  \E start \in {IF pair THEN a.start ELSE min_date(prepared.df)} :
                  \E end \in {IF pair THEN a.end ELSE max_date(prepared.df)} :
                  \E filtered_df \in {apply_filters(prepared.df, start, end,
                                                    a.regions, a.categories)} :
                  \E charts \in Charts(filtered_df, DefaultTopN) :
                     out' = [ op |-> "main", raised |-> NoExc,
                              df |-> prepared.df, start |-> start, end |-> end,
                              selected_regions |-> a.regions,
                              selected_categories |-> a.categories,
                              filtered_df |-> filtered_df,
                              kpis |-> render_kpis(filtered_df),
                              charts |-> charts ]
    /\ UNCHANGED <<program, file_path, df, clean_df>>

Next ==
    \/ Run
    \/ Return
    \/ LoadData
    \/ CleanData
    \/ CalculateKpis
    \/ TopProductsAnalysis
    \/ TopCustomersAnalysis
    \/ RegionalAnalysis
    \/ CategoryAnalysis
    \/ MonthlyTrendAnalysis
    \/ ParetoAnalysis
    \/ Main
    \/ ApplyFilters
    \/ RenderKpis
    \/ RenderTopProducts
    \/ RenderTopCustomers
    \/ RenderRegionCategory
    \/ RenderMonthlyTrend

Spec == Init /\ [][Next]_vars

(***************************************************************************)
(* Properties.                                                             *)
(***************************************************************************)
\* Sum of column c over the rows of frame.
SumCol(frame, c) ==
    LET f[i \in 0..Len(frame)] == IF i = 0 THEN 0 ELSE f[i - 1] + frame[i][c]
    IN f[Len(frame)]

Min(a, b) == IF a < b THEN a ELSE b

Returned(ops) == out.op \in ops /\ out.raised = NoExc

\* Number of distinct values of column c in frame.
Distinct(frame, c) == Cardinality({frame[i][c] : i \in 1..Len(frame)})

\* C1: for each grouping dimension (Region, Category, (Year, Month),
\* ProductName, CustomerName) the Sales of the rows of the untruncated
\* aggregate add up to the Sales of the normalized records, and the order
\* counts add up to the number of records: none dropped, none counted twice.
C1_AggregationConservesSales ==
    LET conserved == /\ SumCol(out.rows, "Sales") = SumCol(clean_df.v, "Sales")
                     /\ SumCol(out.rows, "Order_Count") = Len(clean_df.v)
    IN /\ Returned({"regional_analysis", "category_analysis", "monthly_trend_analysis"})
             => conserved
       /\ (Returned({"top_products_analysis"})
             /\ out.top_n >= Distinct(clean_df.v, "ProductName")) => conserved
       /\ (Returned({"top_customers_analysis"})
             /\ out.top_n >= Distinct(clean_df.v, "CustomerName")) => conserved

\* A regional aggregate of several groups, one of them made of two orders.
C1_Witness ==
    /\ Returned({"regional_analysis"})
    /\ Len(out.rows) >= 2
    /\ \E i \in 1..Len(out.rows) : out.rows[i].Order_Count >= 2 /\ out.rows[i].Sales > 0

TopNColumn == [top_products_analysis |-> "ProductName", top_customers_analysis |-> "CustomerName"]

\* C2: with top_n >= 1 the top products / top customers result has
\* min(top_n, number of groups) rows, and is a prefix of the full aggregate
\* in descending order of summed Sales: its rows are aggregate rows,
\* descending, and no group left out has more Sales than one kept.  With
\* top_n above the number of groups nothing is raised.
C2_TopNPrefix ==
    \A op \in DOMAIN TopNColumn :
        (out.op = op /\ clean_df.some /\ "top_n" \in DOMAIN out /\ out.top_n >= 1) =>
            LET full == Range(ColumnAgg(clean_df.v, TopNColumn[op]))
            IN /\ out.raised = NoExc
               /\ Len(out.rows) = Min(out.top_n, Distinct(clean_df.v, TopNColumn[op]))
               /\ Range(out.rows) \subseteq full
               /\ Cardinality(Range(out.rows)) = Len(out.rows)
               /\ \A i, j \in 1..Len(out.rows) : i < j => out.rows[i].Sales >= out.rows[j].Sales
               /\ \A r \in full \ Range(out.rows) :
                     \A i \in 1..Len(out.rows) : r.Sales <= out.rows[i].Sales

\* top_customers_analysis cut the aggregate short.
C2_Witness ==
    /\ Returned({"top_customers_analysis"})
    /\ out.top_n >= 1
    /\ out.top_n < Distinct(clean_df.v, "CustomerName")
    /\ Len(out.rows) = out.top_n

\* C3: with top_n <= 0 the top products / top customers analyses and the
\* dashboard's top products / top customers charts have no rows.
C3_NonPositiveTopNIsEmpty ==
    (/\ Returned({"top_products_analysis", "top_customers_analysis",
                  "render_top_products", "render_top_customers"})
     /\ "rows" \in DOMAIN out
     /\ out.top_n <= 0) => out.rows = <<>>

\* C4: in pareto_analysis a group is in the head exactly when its cumulative
\* percentage is <= 80 and in the tail exactly when it is > 80; head and
\* tail are disjoint and together hold every group once; a group whose own
\* share is above 80% leaves the head empty and every group in the tail.
C4_ParetoPartition ==
    Returned({"pareto_analysis"}) =>
        LET n == Len(out.pareto_data)
            keys == {out.pareto_data[j].key : j \in 1..n}
        IN /\ \A j \in 1..n :
                 /\ out.pareto_data[j].key \in Range(out.threshold_80)
                        <=> FLe(out.cumulative_pct[j], 80)
                 /\ out.pareto_data[j].key \in Range(out.threshold_20)
                        <=> FGt(out.cumulative_pct[j], 80)
           /\ Range(out.threshold_80) \cap Range(out.threshold_20) = {}
           /\ Range(out.threshold_80) \cup Range(out.threshold_20) = keys
           /\ Len(out.threshold_80) + Len(out.threshold_20) = n
           /\ (\E j \in 1..n : FGt(out.pareto_data_pct[j], 80)) =>
                 /\ out.threshold_80 = <<>>
                 /\ Range(out.threshold_20) = keys

Sign(x) == IF x > 0 THEN 1 ELSE IF x < 0 THEN -1 ELSE 0

\* 2^-30, the floating tolerance of "equals 100%".
Tolerance == Round(1, <<1>>, FALSE, -30)

\* x is 100 within the tolerance.
Near100(x) ==
    /\ x.k = "fin"
    /\ LET d == FAdd(x, FInt(-100))
       IN FLeq([d EXCEPT !.s = IF d.s < 0 THEN 1 ELSE d.s], Tolerance)

NonDecreasing(s) == \A j \in 1..(Len(s) - 1) : FLeq(s[j], s[j + 1])

\* C5 as claimed: whenever the grand total of the metric is not zero the
\* cumulative percentages are non-decreasing and the last one is 100
\* (within the floating tolerance).
C5_CumulativeNonDecreasing ==
    (Returned({"pareto_analysis"}) /\ SumCol(out.pareto_data, "value") # 0) =>
        /\ NonDecreasing(out.cumulative_pct)
        /\ Near100(out.cumulative_pct[Len(out.cumulative_pct)])

\* C5: whenever the grand total of the metric is not zero the last
\* cumulative percentage is 100 within the floating tolerance (it need not
\* be the float 100.0), and the cumulative percentages are
\* non-decreasing if no group's sum has the sign opposite to the total's.
C5_CumulativeEndsAt100 ==
    (Returned({"pareto_analysis"}) /\ SumCol(out.pareto_data, "value") # 0) =>
        LET total == SumCol(out.pareto_data, "value")
        IN /\ Near100(out.cumulative_pct[Len(out.cumulative_pct)])
           /\ (\A j \in 1..Len(out.pareto_data) :
                   Sign(out.pareto_data[j].value) * Sign(total) >= 0)
                 => NonDecreasing(out.cumulative_pct)

\* A Pareto curve over several groups with positive sums whose float64
\* cumulative sum does not end at the float 100.0.
C5_Witness ==
    /\ Returned({"pareto_analysis"})
    /\ Len(out.pareto_data) >= 2
    /\ \A j \in 1..Len(out.pareto_data) : out.pareto_data[j].value > 0
    /\ out.cumulative_pct[Len(out.cumulative_pct)] # FInt(100)

\* C6: when the metric adds up to zero over the records, pareto_analysis
\* raises instead of returning percentages.
C6_ZeroTotalRaises ==
    (/\ out.op = "pareto_analysis"
     /\ clean_df.some
     /\ SumCol(clean_df.v, out.metric) = 0) => out.raised # NoExc

\* C7: the rows of the top products, top customers, regional and category
\* analyses are in descending order of summed Sales, groups with equal Sales
\* in group-key order; the regions of the sample dataset come out as
\* East 60000, South 58000, North 24000, West 16000.
C7_DescendingStableOrder ==
    Returned({"top_products_analysis", "top_customers_analysis",
              "regional_analysis", "category_analysis"}) =>
        /\ \A i, j \in 1..Len(out.rows) : i < j =>
              \/ out.rows[i].Sales > out.rows[j].Sales
              \/ /\ out.rows[i].Sales = out.rows[j].Sales
                 /\ StrLess(out.rows[i].key, out.rows[j].key)
        /\ (out.op = "regional_analysis" /\ df = Some(sample_data)) =>
              [j \in 1..Len(out.rows) |-> <<out.rows[j].key, out.rows[j].Sales>>]
                 = << <<"East", 60000>>, <<"South", 58000>>,
                      <<"North", 24000>>, <<"West", 16000>> >>

\* The frame a monthly trend was computed from.
TrendInput == IF out.op = "monthly_trend_analysis" THEN clean_df.v ELSE out.df

\* C8: monthly_trend_analysis and render_monthly_trend give one row for
\* each (Year, Month) pair of the input and no other, in ascending order of
\* (Year, Month).
C8_MonthlyTrendByYearMonth ==
    (Returned({"monthly_trend_analysis", "render_monthly_trend"}) /\ "rows" \in DOMAIN out) =>
        LET pairs == {<<TrendInput[i].OrderDate.year, TrendInput[i].OrderDate.month>> :
                        i \in 1..Len(TrendInput)}
        IN /\ {<<out.rows[j].Year, out.rows[j].Month>> : j \in 1..Len(out.rows)} = pairs
           /\ Len(out.rows) = Cardinality(pairs)
           /\ \A i, j \in 1..Len(out.rows) : i < j =>
                 \/ out.rows[i].Year < out.rows[j].Year
                 \/ out.rows[i].Year = out.rows[j].Year /\ out.rows[i].Month < out.rows[j].Month

\* A trend with the same month number in two years, the earlier row with
\* more Sales than a later one.
C8_Witness ==
    /\ Returned({"monthly_trend_analysis"})
    /\ \E i, j \in 1..Len(out.rows) :
          /\ i < j
          /\ out.rows[i].Month = out.rows[j].Month
          /\ out.rows[i].Year # out.rows[j].Year
    /\ \E i, j \in 1..Len(out.rows) : i < j /\ out.rows[i].Sales > out.rows[j].Sales

\* A row passes the filter settings.
Passes(r, start, end, regions, categories) ==
    /\ TsLeq(start, r.OrderDate)
    /\ TsLeq(r.OrderDate, end)
    /\ regions = {} \/ r.Region \in regions
    /\ categories = {} \/ r.Category \in categories

\* The positions of the rows of frame that pass.
Passing(frame, start, end, regions, categories) ==
    {i \in 1..Len(frame) : Passes(frame[i], start, end, regions, categories)}

\* s holds the rows of frame at the positions I, in the order of frame.
IsSelection(s, frame, I) ==
    /\ Len(s) = Cardinality(I)
    /\ \A k \in 1..Len(s) :
          \E i \in I : s[k] = frame[i] /\ Cardinality({m \in I : m < i}) = k - 1

\* C9: apply_filters returns exactly the rows with OrderDate in
\* [start, end], Region among the selected regions and Category among the
\* selected categories, an empty selection leaving the field free; main()
\* computes the KPIs and every chart from those rows only; the sample
\* dataset filtered to region North has total sales 24000.
C9_FiltersThenAggregates ==
    /\ Returned({"apply_filters"}) =>
          IsSelection(out.ret, out.df,
                      Passing(out.df, out.args.start, out.args.end,
                              out.args.regions, out.args.categories))
    /\ Returned({"main"}) =>
          LET I == Passing(out.df, out.start, out.end,
                           out.selected_regions, out.selected_categories)
              sales == SumCol([k \in 1..Len(out.filtered_df) |-> out.filtered_df[k]], "Sales")
          IN /\ IsSelection(out.filtered_df, out.df, I)
             /\ out.kpis.total_sales = FInt(sales)
             /\ out.kpis.total_orders = Cardinality(I)
             /\ out.kpis.total_profit = FInt(SumCol(out.filtered_df, "Profit"))
             /\ out.kpis.total_quantity = SumCol(out.filtered_df, "Quantity")
             /\ I # {} =>
                   /\ SumCol(out.charts.top_products, "Sales") = sales
                   /\ SumCol(out.charts.top_customers, "Sales") = sales
                   /\ SumCol(out.charts.by_region, "Sales") = sales
                   /\ SumCol(out.charts.by_cat, "Sales") = sales
                   /\ SumCol(out.charts.trend, "Sales") = sales
                   /\ {out.charts.by_region[j].key : j \in 1..Len(out.charts.by_region)}
                         = {out.df[i].Region : i \in I}
             /\ (/\ out.selected_regions = {"North"}
                 /\ out.df = clean_data(sample_data)
                 /\ out.selected_categories \in {{}, Options(out.df, "Category")}
                 /\ out.start = min_date(out.df)
                 /\ out.end = max_date(out.df)) => out.kpis.total_sales = FInt(24000)

\* main() on the sample dataset with region North selected.
C9_Witness ==
    /\ Returned({"main"})
    /\ out.selected_regions = {"North"}
    /\ out.df = clean_data(sample_data)
    /\ out.selected_categories = {}
    /\ out.start = min_date(out.df)
    /\ out.end = max_date(out.df)
    /\ Len(out.filtered_df) = 2

\* C10: on a record set without rows render_kpis and calculate_kpis return
\* (nothing is raised) total sales, total profit, total orders, total
\* quantity, average order value and margin all 0.
C10_EmptyKpisAreZero ==
    /\ (out.op = "render_kpis" /\ Len(out.df) = 0) =>
          /\ out.raised = NoExc
          /\ out.total_sales = FInt(0) /\ out.total_profit = FInt(0)
          /\ out.total_orders = 0 /\ out.total_quantity = 0
          /\ out.aov = FInt(0) /\ out.margin = FInt(0)
    /\ (out.op = "calculate_kpis" /\ clean_df.some /\ Len(clean_df.v) = 0) =>
          /\ out.raised = NoExc
          /\ out.Total_Sales = 0 /\ out.Total_Profit = 0
          /\ out.Total_Orders = 0 /\ out.Total_Quantity = 0
          /\ out.Average_Order_Value = FInt(0) /\ out.Overall_Profit_Margin = FInt(0)

\* C11: once the normalized record set is there (clean_df of the analyzer,
\* the cached frame of load_and_prepare_data), no step of the running
\* program changes it: filters, KPI, top-N, regional, category, monthly and
\* Pareto computations and reruns of main() leave its rows and all their
\* fields, derived ones included, as they were.
C11_BaseUnchanged ==
    [][ /\ (clean_df.some /\ clean_df'.some) => clean_df' = clean_df
        /\ \A p \in Paths : (cache[p].some /\ cache'[p].some) => cache'[p] = cache[p] ]_vars

\* apply_filters has returned fewer rows than the cached frame has, and
\* the cached frame is still the frame it was given.
C11_Witness ==
    /\ Returned({"apply_filters"})
    /\ Len(out.ret) < Len(out.df)
    /\ Len(out.df) >= 2
    /\ cache[data_path] = Some(out.df)

\* C12: a load_data of a path with no file (in the analyzer, or through
\* load_and_prepare_data in the dashboard) gives the 8-row sample table
\* (Sales 158000, Profit 23300, 8 orders, Quantity 9) and leaves it stored
\* at that path, so that the next load_data of the path reads the table
\* back and writes nothing.
C12_FallbackPersistedAtPath ==
    [][ /\ (out.op = "" /\ out'.op = "load_data" /\ ~fs[file_path].exists) =>
              /\ out'.ret = sample_data
              /\ SumCol(out'.ret, "Sales") = 158000
              /\ SumCol(out'.ret, "Profit") = 23300
              /\ Len(out'.ret) = 8
              /\ SumCol(out'.ret, "Quantity") = 9
              /\ fs'[file_path].exists
              /\ load_data(fs', file_path) = [df |-> sample_data, fs |-> fs']
        /\ (/\ out.op = "" /\ out'.op = "main"
            /\ ~cache[data_path'].some
            /\ ~fs[data_path'].exists) =>
              /\ cache'[data_path'] = Some(clean_data(sample_data))
              /\ fs'[data_path'].exists
              /\ load_data(fs', data_path') = [df |-> sample_data, fs |-> fs'] ]_vars

====
